---- MODULE Spec2Model ----
(***************************************************************************)
(* Model of mmdvm_statemachine/models.py: the QSO record with its          *)
(* complete() and is_active() methods, and the SystemState aggregate with  *)
(* add_active_qso, remove_active_qso, get_active_qso_by_id and             *)
(* record_error.                                                           *)
(*                                                                         *)
(* Python objects have identity: a QSO appended to active_qsos is the same *)
(* object the caller still holds, so the model keeps a heap of QSO records *)
(* and active_qsos is a list of references into it.  datetime values are   *)
(* integers (ticks of the clock `now`), and a timedelta's total_seconds()  *)
(* is the integer difference.  An Optional field is <<>> for None and      *)
(* <<v>> for a value.                                                      *)
(*                                                                         *)
(* config.py and __main__.py are modelled as calls on an environment of    *)
(* configuration files, directories and environment variables: a call's    *)
(* result is the value returned or the exception raised.                   *)
(***************************************************************************)
EXTENDS Integers, Sequences, FiniteSets, TLC

\* ---------------------------------------------------------------- bounds
\* The configured qso_timeout_seconds, in ticks of the clock.
qso_timeout_seconds == 1
\* QSO objects constructed in one run.
MaxObj == 2
\* The clock runs over 0..MaxTime.
MaxTime == 1
\* UUIDs are drawn from 1..MaxId.
MaxId == 2
\* Longest active_qsos list explored.
MaxActive == 3
\* record_error calls explored.
MaxErrors == 2
MaxHandlers == 4
MaxSignals == 2
\* The configured qso_history_size (Scenario E's capacity).
qso_history_size == 2
\* Error messages passed to record_error.
Msgs == {"Test error message", "Second error"}

Ids == 1..MaxId
Times == 0..MaxTime

\* Optional[T]
None == << >>
Some(v) == << v >>

\* ---------------------------------------------------------------- enums
QSOStatus == {"STARTING", "ACTIVE", "ENDING", "COMPLETED", "TIMEOUT", "ERROR"}

VARIABLES
    now,              \* what datetime.now() returns
    heap,             \* the QSO objects constructed so far, by reference 1..Len(heap)
    active_qsos,      \* SystemState.active_qsos: a list of references
    last_update,      \* SystemState.last_update
    error_count,      \* SystemState.error_count
    last_error,       \* SystemState.last_error
    last_error_time,  \* SystemState.last_error_time
    call,             \* the step last taken: [op, a, b] (b an Optional argument)
    ret,              \* what that step returned (Optional reference)
    error_calls,      \* the messages of the record_error calls made, in order
    files,            \* the configuration files on disk: path -> Optional document
    dirs,             \* the directories the configuration names: path -> state
    environ,          \* os.environ: variable -> Optional value
    root_logger,      \* logging.getLogger(): [level, handlers]
    handlers_created, \* the logging handlers constructed so far
    pc,               \* where run_application stands
    shutdown_event,   \* the asyncio.Event of run_application: is it set
    loop,             \* the event loop: [kind, blocked, ready]
    received,         \* the signals delivered to signal_handler, in order
    returned,         \* what run_application returned (Optional)
    main_args,        \* the arguments of the main() that has not returned (Optional)
    current_mode,     \* SystemState.current_mode
    modem_state       \* SystemState.modem_state

vars == << now, heap, active_qsos, last_update, error_count, last_error,
           last_error_time, call, ret, error_calls, files, dirs, environ,
           root_logger, handlers_created, pc, shutdown_event, loop, received,
           returned, main_args, current_mode, modem_state >>

\* What models.py never touches.
world == << files, dirs, environ >>

\* The root logger and the run of the application.
process == << root_logger, handlers_created, pc, shutdown_event, loop, received,
             returned, main_args >>

\* The process before logging is set up and before run_application is called:
\* the root logger has the level WARNING and no handler.
InitProcess ==
    /\ root_logger = [ level |-> "WARNING", handlers |-> << >> ]
    /\ handlers_created = 0
    /\ pc = "not_started"
    /\ shutdown_event = FALSE
    /\ loop = [ kind |-> "none", blocked |-> FALSE, ready |-> FALSE,
              must_cancel |-> FALSE, waiter |-> "none" ]
    /\ received = << >>
    /\ returned = None
    /\ main_args = None

\* The fields of SystemState that none of its methods assigns.
modeVars == << current_mode, modem_state >>

\* Mode and ModemState, as use_enum_values stores them.
Mode == {"DSTAR", "DMR", "YSF", "P25", "NXDN", "POCSAG", "FM", "IDLE"}
ModemState == {"IDLE", "RX", "TX", "ERROR", "UNKNOWN"}

stateVars == << active_qsos, last_update, error_count, last_error, last_error_time >>
errVars == << error_count, last_error, last_error_time, error_calls >>

Refs == 1..Len(heap)

\* A UUID is opaque: the code only compares ids for equality.  A constructed
\* QSO therefore takes an id already in use or the next unused one.
UsedIds == { heap[o].id : o \in Refs }
NewIds == { id \in Ids : id - 1 \in UsedIds \cup {0} }

\* ------------------------------------------------------------------ QSO
\* QSO(mode=..., id=..., status=...): a field the caller does not pass takes
\* its default (status: STARTING, start_time: datetime.now(), end_time and
\* duration_seconds: None, slot: None).  status is None when the caller leaves
\* it out.  mode is required; every QSO here is built with mode=Mode.DMR.
NewQSORecord(id, status) ==
    [ id |-> id, start_time |-> now, end_time |-> None,
      duration_seconds |-> None, mode |-> "DMR", slot |-> None,
      status |-> IF status = None THEN "STARTING" ELSE status[1] ]

QSO_init(id, status) ==
    /\ Len(heap) < MaxObj
    /\ heap' = Append(heap, NewQSORecord(id, status))
    /\ call' = [ op |-> "QSO", a |-> Len(heap) + 1, b |-> status ]
    /\ ret' = None
    /\ UNCHANGED << now, error_calls >>
    /\ UNCHANGED stateVars
    /\ UNCHANGED world
    /\ UNCHANGED process
    /\ UNCHANGED modeVars

\* The record QSO.complete(end_time) leaves in place of q.
Completed(q, end_time) ==
    LET e == IF end_time = None THEN now ELSE end_time[1]
    IN  [ q EXCEPT !.end_time = Some(e),
                   !.duration_seconds = Some(e - q.start_time),
                   !.status = "COMPLETED" ]

complete(o, end_time) ==
    /\ o \in Refs
    /\ heap' = [ heap EXCEPT ![o] = Completed(heap[o], end_time) ]
    /\ call' = [ op |-> "complete", a |-> o, b |-> end_time ]
    /\ ret' = None
    /\ UNCHANGED << now, error_calls >>
    /\ UNCHANGED stateVars
    /\ UNCHANGED world
    /\ UNCHANGED process
    /\ UNCHANGED modeVars

\* is_active counting ENDING among the in-progress statuses.
is_active_with_ending(q) == q.status \in {"STARTING", "ACTIVE", "ENDING"}

is_active(q) == q.status \in {"STARTING", "ACTIVE"}

\* A call qso.is_active(): the bool it returns is the step's result.
QSO_is_active(o) ==
    /\ o \in Refs
    /\ ret' = Some(is_active(heap[o]))
    /\ call' = [ op |-> "is_active", a |-> o, b |-> None ]
    /\ UNCHANGED << now, heap, error_calls >>
    /\ UNCHANGED stateVars
    /\ UNCHANGED world
    /\ UNCHANGED process
    /\ UNCHANGED modeVars

\* ---------------------------------------------------------- SystemState
\* add_active_qso stamping last_update with the QSO's start_time instead of
\* the clock.
add_active_qso_start_stamp(o) ==
    /\ o \in Refs
    /\ Len(active_qsos) < MaxActive
    /\ active_qsos' = Append(active_qsos, o)
    /\ last_update' = heap[o].start_time
    /\ call' = [ op |-> "add_active_qso", a |-> o, b |-> None ]
    /\ ret' = None
    /\ UNCHANGED << now, heap >>
    /\ UNCHANGED errVars
    /\ UNCHANGED world
    /\ UNCHANGED process
    /\ UNCHANGED modeVars

\* add_active_qso putting the QSO first (list.insert(0, qso)).
add_active_qso_first(o) ==
    /\ o \in Refs
    /\ Len(active_qsos) < MaxActive
    /\ active_qsos' = << o >> \o active_qsos
    /\ last_update' = now
    /\ call' = [ op |-> "add_active_qso", a |-> o, b |-> None ]
    /\ ret' = None
    /\ UNCHANGED << now, heap >>
    /\ UNCHANGED errVars
    /\ UNCHANGED world
    /\ UNCHANGED process
    /\ UNCHANGED modeVars

add_active_qso(o) ==
    /\ o \in Refs
    /\ Len(active_qsos) < MaxActive
    /\ active_qsos' = Append(active_qsos, o)
    /\ last_update' = now
    /\ call' = [ op |-> "add_active_qso", a |-> o, b |-> None ]
    /\ ret' = None
    /\ UNCHANGED << now, heap >>
    /\ UNCHANGED errVars
    /\ UNCHANGED world
    /\ UNCHANGED process
    /\ UNCHANGED modeVars

\* The for loop of remove_active_qso and get_active_qso_by_id: the first
\* index at or after i whose QSO has the id, 0 when the loop ends without one.
RECURSIVE FirstIndex(_, _, _)
FirstIndex(list, qso_id, i) ==
    IF i > Len(list) THEN 0
    ELSE IF heap[list[i]].id = qso_id THEN i
    ELSE FirstIndex(list, qso_id, i + 1)

\* Removal by filtering: every entry with the id of entry i goes.
PopAllWithId(list, i) ==
    SelectSeq(list, LAMBDA r : heap[r].id # heap[list[i]].id)

\* list.pop(i)
Pop(list, i) == SubSeq(list, 1, i - 1) \o SubSeq(list, i + 1, Len(list))

\* remove_active_qso counting a removal that finds nothing as an error.
remove_active_qso_counting(qso_id) ==
    LET i == FirstIndex(active_qsos, qso_id, 1)
    IN  /\ IF i # 0
           THEN /\ active_qsos' = Pop(active_qsos, i)
                /\ last_update' = now
                /\ ret' = Some(active_qsos[i])
                /\ UNCHANGED error_count
           ELSE /\ ret' = None
                /\ error_count' = IF error_count < MaxErrors
                                  THEN error_count + 1 ELSE error_count
                /\ UNCHANGED << active_qsos, last_update >>
        /\ call' = [ op |-> "remove_active_qso", a |-> qso_id, b |-> None ]
        /\ UNCHANGED << now, heap, last_error, last_error_time, error_calls >>
        /\ UNCHANGED world
        /\ UNCHANGED process
        /\ UNCHANGED modeVars

remove_active_qso(qso_id) ==
    LET i == FirstIndex(active_qsos, qso_id, 1)
    IN  /\ IF i # 0
           THEN /\ active_qsos' = Pop(active_qsos, i)
                /\ last_update' = now
                /\ ret' = Some(active_qsos[i])
           ELSE /\ ret' = None
                /\ UNCHANGED << active_qsos, last_update >>
        /\ call' = [ op |-> "remove_active_qso", a |-> qso_id, b |-> None ]
        /\ UNCHANGED << now, heap >>
        /\ UNCHANGED errVars
        /\ UNCHANGED world
        /\ UNCHANGED process
        /\ UNCHANGED modeVars

\* get_active_qso_by_id stamping last_update as the two mutators do.
get_active_qso_by_id_stamp(qso_id) ==
    LET i == FirstIndex(active_qsos, qso_id, 1)
    IN  /\ ret' = IF i # 0 THEN Some(active_qsos[i]) ELSE None
        /\ last_update' = now
        /\ call' = [ op |-> "get_active_qso_by_id", a |-> qso_id, b |-> None ]
        /\ UNCHANGED << now, heap, active_qsos >>
        /\ UNCHANGED errVars
        /\ UNCHANGED world
        /\ UNCHANGED process
        /\ UNCHANGED modeVars

get_active_qso_by_id(qso_id) ==
    LET i == FirstIndex(active_qsos, qso_id, 1)
    IN  /\ ret' = IF i # 0 THEN Some(active_qsos[i]) ELSE None
        /\ call' = [ op |-> "get_active_qso_by_id", a |-> qso_id, b |-> None ]
        /\ UNCHANGED << now, heap, error_calls >>
        /\ UNCHANGED stateVars
        /\ UNCHANGED world
        /\ UNCHANGED process
        /\ UNCHANGED modeVars

\* record_error counting the error without storing its message.
record_error_no_message(error_message) ==
    /\ error_count < MaxErrors
    /\ error_count' = error_count + 1
    /\ last_error' = last_error
    /\ last_error_time' = Some(now)
    /\ \E t \in now..MaxTime :
          /\ last_update' = t
          /\ now' = t
    /\ error_calls' = Append(error_calls, error_message)
    /\ call' = [ op |-> "record_error", a |-> 0, b |-> Some(error_message) ]
    /\ ret' = None
    /\ UNCHANGED << heap, active_qsos >>
    /\ UNCHANGED world
    /\ UNCHANGED process
    /\ UNCHANGED modeVars

\* record_error reads the clock twice; it may advance between the reads.
record_error(error_message) ==
    /\ error_count < MaxErrors
    /\ error_count' = error_count + 1
    /\ last_error' = Some(error_message)
    /\ last_error_time' = Some(now)
    /\ \E t \in now..MaxTime :
          /\ last_update' = t
          /\ now' = t
    /\ error_calls' = Append(error_calls, error_message)
    /\ call' = [ op |-> "record_error", a |-> 0, b |-> Some(error_message) ]
    /\ ret' = None
    /\ UNCHANGED << heap, active_qsos >>
    /\ UNCHANGED world
    /\ UNCHANGED process
    /\ UNCHANGED modeVars

\* SystemState declares no field that keeps finalized QSOs (its only QSO
\* container is active_qsos) and no get_history: what it retains of the QSOs
\* that left the active list is nothing.
History == << >>

\* The Event class is constructed nowhere in the package and no operation
\* hands anything to a subscriber: the events a step emits are none.
Emitted == << >>

\* ------------------------------------------------------------- the clock
Tick ==
    /\ now < MaxTime
    /\ now' = now + 1
    /\ call' = [ op |-> "tick", a |-> 0, b |-> None ]
    /\ ret' = None
    /\ UNCHANGED << heap, error_calls >>
    /\ UNCHANGED stateVars
    /\ UNCHANGED world
    /\ UNCHANGED process
    /\ UNCHANGED modeVars

\* run_application waiting on its shutdown event with no service started:
\* qso_timeout_seconds and a further supervisor interval (at most another
\* qso_timeout_seconds) go by and nothing else runs.
Idle ==
    /\ now <= MaxTime
    /\ now' = now + 2 * qso_timeout_seconds
    /\ call' = [ op |-> "idle", a |-> 0, b |-> None ]
    /\ ret' = None
    /\ UNCHANGED << heap, error_calls >>
    /\ UNCHANGED stateVars
    /\ UNCHANGED world
    /\ UNCHANGED process
    /\ UNCHANGED modeVars

\* ------------------------------------------------------------ config.py
\* What a call produces: a returned value, or the exception it raised.
Return(v) == [ exc |-> "", val |-> Some(v) ]
Raise(e) == [ exc |-> e, val |-> None ]

\* F applied to the value of v, v being evaluated once.
Bind(v, F(_)) == CHOOSE y \in { F(x) : x \in {v} } : TRUE

\* A path is the tuple of its parts, as pathlib splits it.
LogDir == << "/", "var", "log", "mmdvm" >>
AppLogDir == << "/", "var", "log", "mmdvm-state-machine" >>
DataDir == << "/", "data", "logs" >>
RelativeDir == << "logs" >>
DefaultLogFile == Append(AppLogDir, "app.log")

is_absolute(path) == path # << >> /\ path[1] = "/"
parent(path) == SubSeq(path, 1, Len(path) - 1)

\* A directory is missing, missing where it cannot be created ("blocked"),
\* or present with or without the read and write permissions; a read-only
\* directory may hold a log file that is itself writable ("readonly_log").
DirStates == {"missing", "blocked", "unreadable", "readonly", "readonly_log", "ok"}
exists(d) == d \notin {"missing", "blocked"}
R_OK(d) == d \in {"readonly", "readonly_log", "ok"}
W_OK(d) == d = "ok"

\* The configuration files: the one a caller names, the one MMDVM_CONFIG
\* names, and the three standard locations in search order.
CustomPath == "custom.yaml"
EnvPath == "env.yaml"
search_paths ==
    << "config.yaml", "~/.config/mmdvm-state-machine/config.yaml",
       "/etc/mmdvm-state-machine/config.yaml" >>
ConfigPaths == {CustomPath, EnvPath} \cup { search_paths[i] : i \in 1..3 }

\* A YAML document.  A section, and a key of a section, is None when the
\* document does not give it.  kind is "empty" for a file with no content,
\* "malformed" for one the parser rejects.
EmptyLogMonitoring == [ log_directory |-> None ]
EmptyStateMachine == [ qso_history_size |-> None, qso_timeout_seconds |-> None ]
EmptyLogging == [ level |-> None, file |-> None ]

Document(kind, lm, sm, lg) ==
    [ kind |-> kind, log_monitoring |-> lm, state_machine |-> sm, logging |-> lg ]

EmptyDocument == Document("empty", None, None, None)
MalformedDocument == Document("malformed", None, None, None)
LoggingDocument ==
    Document("mapping", None, None, Some([ level |-> Some("debug"), file |-> None ]))
StateMachineDocument ==
    Document("mapping", None,
             Some([ qso_history_size |-> Some(50), qso_timeout_seconds |-> None ]),
             None)
FullDocument ==
    Document("mapping", Some([ log_directory |-> Some(DataDir) ]),
             Some([ qso_history_size |-> Some(50), qso_timeout_seconds |-> Some(5) ]),
             Some([ level |-> Some("WARNING"), file |-> Some(None) ]))
EmptyFileDocument ==
    Document("mapping", None, None,
             Some([ level |-> None, file |-> Some(Some(<< >>)) ]))
InvalidDocument ==
    Document("mapping", Some([ log_directory |-> Some(RelativeDir) ]),
             Some([ qso_history_size |-> Some(0), qso_timeout_seconds |-> None ]),
             None)
Documents ==
    { EmptyDocument, MalformedDocument, LoggingDocument, StateMachineDocument,
      FullDocument, EmptyFileDocument, InvalidDocument }

\* The file at a default location sets one value that tells the locations
\* apart.
LocationDocument(path) ==
    LET n == CHOOSE i \in 0..3 : IF i = 0 THEN path = EnvPath
                                 ELSE path = search_paths[i]
    IN  Document("mapping", None,
                 Some([ qso_history_size |-> Some(10 + n),
                        qso_timeout_seconds |-> None ]),
                 None)

\* str.upper() on the level names used here.
upper(v) ==
    CASE v \in {"debug", "Debug"} -> "DEBUG"
      [] v \in {"info", "Info"} -> "INFO"
      [] v \in {"warning", "Warning"} -> "WARNING"
      [] v \in {"error", "eRRoR"} -> "ERROR"
      [] v \in {"critical", "Critical"} -> "CRITICAL"
      [] v \in {"invalid", "Invalid"} -> "INVALID"
      [] v = "trace" -> "TRACE"
      [] v = " info" -> " INFO"
      [] OTHER -> v

\* LogMonitoringConfig.validate_log_directory
validate_log_directory(v) ==
    IF ~is_absolute(v) THEN Raise("ValueError") ELSE Return(v)

\* StateMachineConfig.validate_history_size
validate_history_size(v) ==
    IF v < 1 \/ v > 10000 THEN Raise("ValueError") ELSE Return(v)

\* validate_timeout refusing its upper limit.
validate_timeout_exclusive(v) ==
    IF v < 1 \/ v >= 3600 THEN Raise("ValueError") ELSE Return(v)

\* StateMachineConfig.validate_timeout
validate_timeout(v) ==
    IF v < 1 \/ v > 3600 THEN Raise("ValueError") ELSE Return(v)

\* validate_level returning the level as it was given.
validate_level_as_given(v) ==
    LET v_upper == upper(v)
    IN  IF v_upper \notin {"DEBUG", "INFO", "WARNING", "ERROR", "CRITICAL"}
        THEN Raise("ValueError")
        ELSE Return(v)

\* LoggingConfig.validate_level
validate_level(v) ==
    LET v_upper == upper(v)
    IN  IF v_upper \notin {"DEBUG", "INFO", "WARNING", "ERROR", "CRITICAL"}
        THEN Raise("ValueError")
        ELSE Return(v_upper)

\* A settings class takes each field from the keyword given, else from the
\* environment variable named after the field, else from the default; the
\* field's validator runs on a value that is not the default.  A dict is the
\* keywords: a key it lacks is None.  Of the variables only LEVEL is followed.
LogMonitoringConfig(d) ==
    IF d.log_directory = None THEN Return([ log_directory |-> LogDir ])
    ELSE LET r == validate_log_directory(d.log_directory[1])
         IN  IF r.exc # "" THEN r ELSE Return([ log_directory |-> r.val[1] ])

StateMachineConfig(d) ==
    LET h == IF d.qso_history_size = None THEN Return(100)
             ELSE validate_history_size(d.qso_history_size[1])
        t == IF d.qso_timeout_seconds = None THEN Return(30)
             ELSE validate_timeout(d.qso_timeout_seconds[1])
    IN  IF h.exc # "" THEN Raise(h.exc)
        ELSE IF t.exc # "" THEN Raise(t.exc)
        ELSE Return([ qso_history_size |-> h.val[1],
                      qso_timeout_seconds |-> t.val[1] ])

LoggingConfig(d) ==
    LET l == IF d.level # None THEN validate_level(d.level[1])
             ELSE IF environ.LEVEL # None THEN validate_level(environ.LEVEL[1])
             ELSE Return("INFO")
        f == IF d.file # None THEN d.file[1] ELSE Some(DefaultLogFile)
    IN  IF l.exc # "" THEN Raise(l.exc)
        ELSE Return([ level |-> l.val[1], file |-> f,
                      rotation |-> [ enabled |-> TRUE ] ])

PerformanceConfig == Return([ use_uvloop |-> TRUE ])

\* Config(log_monitoring=..., state_machine=..., logging=..., performance=...):
\* the keyword arguments are evaluated first, the first that raises ends the
\* call.
Config(lm, sm, lg) ==
    IF lm.exc # "" THEN Raise(lm.exc)
    ELSE IF sm.exc # "" THEN Raise(sm.exc)
    ELSE IF lg.exc # "" THEN Raise(lg.exc)
    ELSE Return([ log_monitoring |-> lm.val[1], state_machine |-> sm.val[1],
                  logging |-> lg.val[1], performance |-> PerformanceConfig.val[1] ])

\* Config(): every section from its default factory.
Config_default ==
    Config(LogMonitoringConfig(EmptyLogMonitoring),
           StateMachineConfig(EmptyStateMachine),
           LoggingConfig(EmptyLogging))

\* yaml.safe_load on the file's content, then `if config_dict is None`.
safe_load(doc) ==
    IF doc.kind = "malformed" THEN Raise("YAMLError")
    ELSE IF doc.kind = "empty" THEN Return(Document("mapping", None, None, None))
    ELSE Return(doc)

\* config_dict.get(section, {})
get(section, empty) == IF section = None THEN empty ELSE section[1]

Config_from_yaml(yaml_path) ==
    IF files[yaml_path] = None THEN Raise("FileNotFoundError")
    ELSE Bind(safe_load(files[yaml_path][1]), LAMBDA loaded :
         IF loaded.exc # "" THEN Raise(loaded.exc)
         ELSE LET config_dict == loaded.val[1]
              IN  Config(
                    LogMonitoringConfig(get(config_dict.log_monitoring, EmptyLogMonitoring)),
                    StateMachineConfig(get(config_dict.state_machine, EmptyStateMachine)),
                    LoggingConfig(get(config_dict.logging, EmptyLogging))))

\* The loop of get_default_config_path over search_paths.
RECURSIVE first_existing(_, _)
first_existing(paths, i) ==
    IF i > Len(paths) THEN Raise("FileNotFoundError")
    ELSE IF files[paths[i]] # None THEN Return(paths[i])
    ELSE first_existing(paths, i + 1)

\* get_default_config_path looking at MMDVM_CONFIG after the standard
\* locations.
Config_get_default_config_path_env_last ==
    LET env_path == environ.MMDVM_CONFIG
        found == first_existing(search_paths, 1)
    IN  IF found.exc = "" THEN found
        ELSE IF env_path # None /\ env_path[1] # "" /\ files[env_path[1]] # None
        THEN Return(env_path[1])
        ELSE found

Config_get_default_config_path ==
    LET env_path == environ.MMDVM_CONFIG
    IN  IF env_path # None /\ env_path[1] # "" /\ files[env_path[1]] # None
        THEN Return(env_path[1])
        ELSE first_existing(search_paths, 1)

\* `if config.file:` / `if self.logging.file:` an absent file and an empty
\* path are false.
file_configured(config) == config.file # None /\ config.file[1] # << >>

\* validate_runtime leaving out the readability check.
Config_validate_runtime_unread(config) ==
    LET log_dir == config.log_monitoring.log_directory
    IN  IF ~exists(dirs[log_dir]) THEN [ exc |-> "ValueError", dirs |-> dirs ]
        ELSE IF ~file_configured(config.logging) THEN [ exc |-> "", dirs |-> dirs ]
        ELSE LET app_log_dir == parent(config.logging.file[1])
                 made == IF dirs[app_log_dir] = "missing"
                         THEN [ dirs EXCEPT ![app_log_dir] = "ok" ]
                         ELSE dirs
             IN  IF dirs[app_log_dir] = "blocked"
                 THEN [ exc |-> "ValueError", dirs |-> dirs ]
                 ELSE IF ~W_OK(made[app_log_dir])
                 THEN [ exc |-> "ValueError", dirs |-> made ]
                 ELSE [ exc |-> "", dirs |-> made ]

\* config.validate_runtime(): the exception raised ("" for none) and the
\* directories it leaves (mkdir creates a missing application log directory).
Config_validate_runtime(config) ==
    LET log_dir == config.log_monitoring.log_directory
    IN  IF ~exists(dirs[log_dir]) THEN [ exc |-> "ValueError", dirs |-> dirs ]
        ELSE IF ~R_OK(dirs[log_dir]) THEN [ exc |-> "ValueError", dirs |-> dirs ]
        ELSE IF ~file_configured(config.logging) THEN [ exc |-> "", dirs |-> dirs ]
        ELSE LET app_log_dir == parent(config.logging.file[1])
                 made == IF dirs[app_log_dir] = "missing"
                         THEN [ dirs EXCEPT ![app_log_dir] = "ok" ]
                         ELSE dirs
             IN  IF dirs[app_log_dir] = "blocked"
                 THEN [ exc |-> "ValueError", dirs |-> dirs ]
                 ELSE IF ~W_OK(made[app_log_dir])
                 THEN [ exc |-> "ValueError", dirs |-> made ]
                 ELSE [ exc |-> "", dirs |-> made ]

\* The Config load_config has in hand before it validates: the file named,
\* else the first default location, else Config().
load_config_source(config_path) ==
    IF config_path # None /\ config_path[1] # ""
    THEN Config_from_yaml(config_path[1])
    ELSE Bind(Config_get_default_config_path, LAMBDA default_path :
         IF default_path.exc = "FileNotFoundError" THEN Config_default
         ELSE Bind(Config_from_yaml(default_path.val[1]), LAMBDA config :
              IF config.exc = "FileNotFoundError" THEN Config_default
              ELSE config))

\* load_config returning the Config without validate_runtime.
load_config_unvalidated(config_path) ==
    Bind(load_config_source(config_path), LAMBDA config :
         [ exc |-> config.exc, val |-> config.val, dirs |-> dirs ])

\* load_config(config_path): the result and the directories it leaves.
load_config(config_path) ==
    Bind(load_config_source(config_path), LAMBDA config :
         IF config.exc # ""
         THEN [ exc |-> config.exc, val |-> None, dirs |-> dirs ]
         ELSE Bind(Config_validate_runtime(config.val[1]), LAMBDA checked :
              IF checked.exc # ""
              THEN [ exc |-> checked.exc, val |-> None, dirs |-> checked.dirs ]
              ELSE [ exc |-> "", val |-> config.val, dirs |-> checked.dirs ]))

\* ----------------------------------------------------------- __main__.py
\* The command lines: no option, --config custom.yaml, --version, and an
\* option argparse does not know.  argparse leaves through SystemExit for the
\* last two.
Argvs == {"", "--config", "--version", "--bogus"}

parse_arguments(argv) ==
    CASE argv = "" -> Return([ config |-> None ])
      [] argv = "--config" -> Return([ config |-> Some(CustomPath) ])
      [] OTHER -> Raise("SystemExit")

\* sys.stdout, as the stream of a handler.
Stdout == << "sys.stdout" >>

\* logging.StreamHandler(sys.stdout), the id-th handler constructed.
StreamHandler(level, id) ==
    [ class |-> "StreamHandler", stream |-> Stdout, level |-> level, id |-> id ]

\* RotatingFileHandler(filename=...) when rotation is enabled, else
\* logging.FileHandler(filename=...).
file_handler(config, id) ==
    [ class |-> IF config.rotation.enabled THEN "RotatingFileHandler"
                ELSE "FileHandler",
      stream |-> config.file[1], level |-> config.level, id |-> id ]

\* What setup_logging leaves: the exception, the root logger, the handlers
\* constructed and the directories.
LoggingResult(exc, level, handlers, created, d) ==
    [ exc |-> exc, root_logger |-> [ level |-> level, handlers |-> handlers ],
      handlers_created |-> created, dirs |-> d ]

\* The statements of setup_logging after which a KeyboardInterrupt can
\* strike: at its first statement, after setLevel, after handlers.clear(),
\* after StreamHandler(sys.stdout), after addHandler(console_handler), after
\* parent.mkdir, after the file handler was constructed, after
\* addHandler(file_handler).
SetupInterrupts ==
    {"setup_logging", "setLevel", "clear", "StreamHandler", "addHandler",
     "mkdir", "FileHandler", "addFileHandler"}

\* setup_logging adding its handlers to the ones already attached.
setup_logging_handlers_kept(config, opens, d, interrupt) ==
    LET console_handler == StreamHandler(config.level, handlers_created + 1)
        kept == root_logger.handlers
        attached == Append(kept, console_handler)
    IN  CASE interrupt = "setup_logging" ->
               LoggingResult("KeyboardInterrupt", root_logger.level, kept,
                             handlers_created, d)
          [] interrupt \in {"setLevel", "clear"} ->
               LoggingResult("KeyboardInterrupt", config.level, kept,
                             handlers_created, d)
          [] interrupt = "StreamHandler" ->
               LoggingResult("KeyboardInterrupt", config.level, kept,
                             handlers_created + 1, d)
          [] interrupt = "addHandler" ->
               LoggingResult("KeyboardInterrupt", config.level, attached,
                             handlers_created + 1, d)
          [] OTHER ->
               IF ~file_configured(config)
               THEN LoggingResult("", config.level, attached, handlers_created + 1, d)
               ELSE LET log_dir == parent(config.file[1])
                        made == IF d[log_dir] = "missing"
                                THEN [ d EXCEPT ![log_dir] = "ok" ]
                                ELSE d
                        both == Append(attached,
                                       file_handler(config, handlers_created + 2))
                    IN  IF d[log_dir] = "blocked"
                        THEN LoggingResult("OSError", config.level, attached,
                                           handlers_created + 1, d)
                        ELSE IF interrupt = "mkdir"
                        THEN LoggingResult("KeyboardInterrupt", config.level,
                                           attached, handlers_created + 1, made)
                        ELSE IF ~opens \/ made[log_dir] \notin {"ok", "readonly_log"}
                        THEN LoggingResult("OSError", config.level, attached,
                                           handlers_created + 1, made)
                        ELSE IF interrupt = "FileHandler"
                        THEN LoggingResult("KeyboardInterrupt", config.level,
                                           attached, handlers_created + 2, made)
                        ELSE IF interrupt = "addFileHandler"
                        THEN LoggingResult("KeyboardInterrupt", config.level,
                                           both, handlers_created + 2, made)
                        ELSE LoggingResult("", config.level, both,
                                           handlers_created + 2, made)

\* setup_logging(config) with the directories as d, statement by statement:
\* setLevel, handlers.clear(), the console handler constructed and attached,
\* then, when a file is configured, parent.mkdir(parents=True,
\* exist_ok=True), the file handler constructed and attached. mkdir and the
\* opening of the file raise OSError after the console handler was attached.
\* The file opens in a writable directory, or where it is there and
\* writable, unless something else is in the way (opens FALSE). A
\* KeyboardInterrupt after the statement interrupt names leaves what the
\* statements up to it have done; a statement the call does not come to
\* interrupts nothing.
setup_logging(config, opens, d, interrupt) ==
    LET console_handler == StreamHandler(config.level, handlers_created + 1)
        attached == << console_handler >>
    IN  CASE interrupt = "setup_logging" ->
               LoggingResult("KeyboardInterrupt", root_logger.level,
                             root_logger.handlers, handlers_created, d)
          [] interrupt = "setLevel" ->
               LoggingResult("KeyboardInterrupt", config.level,
                             root_logger.handlers, handlers_created, d)
          [] interrupt = "clear" ->
               LoggingResult("KeyboardInterrupt", config.level, << >>,
                             handlers_created, d)
          [] interrupt = "StreamHandler" ->
               LoggingResult("KeyboardInterrupt", config.level, << >>,
                             handlers_created + 1, d)
          [] interrupt = "addHandler" ->
               LoggingResult("KeyboardInterrupt", config.level, attached,
                             handlers_created + 1, d)
          [] OTHER ->
               IF ~file_configured(config)
               THEN LoggingResult("", config.level, attached, handlers_created + 1, d)
               ELSE LET log_dir == parent(config.file[1])
                        made == IF d[log_dir] = "missing"
                                THEN [ d EXCEPT ![log_dir] = "ok" ]
                                ELSE d
                        both == Append(attached,
                                       file_handler(config, handlers_created + 2))
                    IN  IF d[log_dir] = "blocked"
                        THEN LoggingResult("OSError", config.level, attached,
                                           handlers_created + 1, d)
                        ELSE IF interrupt = "mkdir"
                        THEN LoggingResult("KeyboardInterrupt", config.level,
                                           attached, handlers_created + 1, made)
                        ELSE IF ~opens \/ made[log_dir] \notin {"ok", "readonly_log"}
                        THEN LoggingResult("OSError", config.level, attached,
                                           handlers_created + 1, made)
                        ELSE IF interrupt = "FileHandler"
                        THEN LoggingResult("KeyboardInterrupt", config.level,
                                           attached, handlers_created + 2, made)
                        ELSE IF interrupt = "addFileHandler"
                        THEN LoggingResult("KeyboardInterrupt", config.level,
                                           both, handlers_created + 2, made)
                        ELSE LoggingResult("", config.level, both,
                                           handlers_created + 2, made)

\* The run phase answering a KeyboardInterrupt with 1.
run_phase_interrupt_fails(config, interrupt, uvloop, outcome) ==
    IF interrupt \in {"uvloop", "asyncio.run"} THEN Return(1)
    ELSE IF outcome = "crash" THEN Raise("RuntimeError")
    ELSE IF interrupt = "Runner.run" THEN Raise("CancelledError")
    ELSE [ exc |-> "", val |-> None ]

\* The inner try of main() up to the moment run_application runs: the
\* uvloop import (an ImportError is logged and dropped) and
\* asyncio.run(run_application(config)). A KeyboardInterrupt before
\* asyncio.run is called ("uvloop"), or inside asyncio.run while the SIGINT
\* handler is default_int_handler or after Runner.run has reset its
\* interrupt count and before the task's first step ("asyncio.run"), is
\* answered with 0 by `except KeyboardInterrupt`, and no statement of
\* run_application runs. Outcome "crash" is asyncio.run itself raising an
\* Exception. A SIGINT between Runner.run installing its handler and
\* resetting its interrupt count ("Runner.run") cancels the task, and
\* asyncio.run raises CancelledError. A value of None says that
\* run_application is running and main() has not returned.
run_phase(config, interrupt, uvloop, outcome) ==
    IF interrupt \in {"uvloop", "asyncio.run"} THEN Return(0)
    ELSE IF outcome = "crash" THEN Raise("RuntimeError")
    ELSE IF interrupt = "Runner.run" THEN Raise("CancelledError")
    ELSE [ exc |-> "", val |-> None ]

\* Where a SIGINT arrives while the handler is still Python's
\* default_int_handler or the one asyncio.run installs: never, in
\* parse_arguments, at the first or at the last statement of load_config,
\* after a statement of setup_logging, at `logger = get_logger(__name__)`,
\* in the inner try before asyncio.run is called, inside asyncio.run (in
\* Runner.run before the interrupt count is reset, or else before the task's
\* first step), or in run_application before signal.signal.
Interrupts ==
    {"never", "parse_arguments", "load_config", "load_config_return",
     "get_logger", "uvloop", "asyncio.run", "Runner.run", "run_application"}
        \cup SetupInterrupts
Outcomes == {"runs", "crash"}
Uvloops == {"installed", "ImportError"}

\* The event loop asyncio.run creates.
loop_kind(config, uvloop) ==
    IF config.performance.use_uvloop /\ uvloop = "installed" THEN "uvloop"
    ELSE "asyncio"

\* What main() leaves behind: logging_set_up says that setup_logging has
\* returned, app_run that asyncio.run was called, running that main() is
\* inside asyncio.run(run_application(config)), must_cancel that asyncio's
\* SIGINT handler has cancelled the task.
MainResult(r, logging, ran, d, lg, kind, cancel) ==
    [ exc |-> r.exc, val |-> r.val, logging_set_up |-> logging,
      app_run |-> ran, dirs |-> d, root_logger |-> lg.root_logger,
      handlers_created |-> lg.handlers_created,
      running |-> r.exc = "" /\ r.val = None, loop_kind |-> kind,
      must_cancel |-> cancel ]

\* The root logger as it stands.
NoLogging ==
    [ root_logger |-> root_logger, handlers_created |-> handlers_created ]

\* An except handler of main() returning code: the handler for SIGINT being
\* default_int_handler, a SIGINT that arrives while the handler runs (again)
\* raises KeyboardInterrupt out of it.
except_handler(code, again) ==
    IF again THEN Raise("KeyboardInterrupt") ELSE Return(code)

\* main() up to its return or to the start of run_application: `except
\* Exception` turns every Exception into exit code 1; SystemExit,
\* KeyboardInterrupt and asyncio.CancelledError are not Exceptions and pass
\* it; `except KeyboardInterrupt` of the inner try returns 0.
main(argv, interrupt, opens, uvloop, outcome, again) ==
    LET args == parse_arguments(argv)
    IN  IF interrupt = "parse_arguments"
        THEN MainResult(Raise("KeyboardInterrupt"), FALSE, FALSE, dirs, NoLogging,
                        "none", FALSE)
        ELSE IF args.exc # ""
        THEN MainResult(Raise(args.exc), FALSE, FALSE, dirs, NoLogging, "none", FALSE)
        ELSE IF interrupt = "load_config"
        THEN MainResult(Raise("KeyboardInterrupt"), FALSE, FALSE, dirs, NoLogging,
                        "none", FALSE)
        ELSE Bind(load_config(args.val[1].config), LAMBDA config :
            IF config.exc # ""
            THEN MainResult(except_handler(1, again), FALSE, FALSE, config.dirs,
                            NoLogging, "none", FALSE)
            ELSE IF interrupt = "load_config_return"
            THEN MainResult(Raise("KeyboardInterrupt"), FALSE, FALSE, config.dirs,
                            NoLogging, "none", FALSE)
            ELSE Bind(setup_logging(config.val[1].logging, opens, config.dirs,
                                    interrupt),
                      LAMBDA lg :
                IF lg.exc = "KeyboardInterrupt"
                THEN MainResult(Raise("KeyboardInterrupt"), FALSE, FALSE, lg.dirs,
                                lg, "none", FALSE)
                ELSE IF lg.exc # ""
                THEN MainResult(except_handler(1, again), FALSE, FALSE, lg.dirs,
                                lg, "none", FALSE)
                ELSE IF interrupt = "get_logger"
                THEN MainResult(Raise("KeyboardInterrupt"), TRUE, FALSE, lg.dirs,
                                lg, "none", FALSE)
                ELSE Bind(run_phase(config.val[1], interrupt, uvloop, outcome),
                          LAMBDA exit_code :
                    IF exit_code.exc = "CancelledError"
                    THEN MainResult(exit_code, TRUE, TRUE, lg.dirs, lg, "none", FALSE)
                    ELSE IF exit_code.exc # ""
                    THEN MainResult(except_handler(1, again), TRUE, TRUE, lg.dirs,
                                    lg, "none", FALSE)
                    ELSE IF exit_code.val # None
                    THEN MainResult(except_handler(exit_code.val[1], again), TRUE,
                                    interrupt # "uvloop", lg.dirs, lg, "none", FALSE)
                    ELSE MainResult(exit_code, TRUE, TRUE, lg.dirs, lg,
                                    loop_kind(config.val[1], uvloop),
                                    interrupt = "run_application"))))

\* ------------------------------------------------ run_application, by step
\* What no step of run_application touches.
runFrame ==
    << now, heap, error_calls, files, dirs, environ, root_logger,
       handlers_created, main_args, current_mode, modem_state >>

Signals == {"SIGINT", "SIGTERM"}

\* The event loop asyncio.run creates: uvloop's after uvloop.install(), the
\* default selector loop otherwise.
EventLoops == {"uvloop", "asyncio"}

\* run_application up to the try: shutdown_event = asyncio.Event() and
\* setup_signal_handlers(shutdown_event), which registers signal_handler for
\* SIGINT and SIGTERM with signal.signal.
setup_signal_handlers(kind) ==
    /\ pc = "not_started"
    /\ pc' = "initialize"
    /\ shutdown_event' = FALSE
    /\ loop' = [ kind |-> kind, blocked |-> FALSE, ready |-> FALSE,
                 must_cancel |-> FALSE, waiter |-> "none" ]
    /\ call' = [ op |-> "setup_signal_handlers", a |-> 0, b |-> Some(kind) ]
    /\ ret' = None
    /\ UNCHANGED << received, returned >>
    /\ UNCHANGED stateVars
    /\ UNCHANGED runFrame

\* "All components initialized successfully"
initialize ==
    /\ pc = "initialize"
    /\ pc' = "start_services"
    /\ call' = [ op |-> "initialize", a |-> 0, b |-> None ]
    /\ ret' = None
    /\ UNCHANGED << shutdown_event, loop, received, returned >>
    /\ UNCHANGED stateVars
    /\ UNCHANGED runFrame

\* "All services started, application running"
start_services ==
    /\ pc = "start_services"
    /\ pc' = "wait"
    /\ call' = [ op |-> "start_services", a |-> 0, b |-> None ]
    /\ ret' = None
    /\ UNCHANGED << shutdown_event, loop, received, returned >>
    /\ UNCHANGED stateVars
    /\ UNCHANGED runFrame

\* await shutdown_event.wait(), its first statement: Event.wait tests the
\* flag and returns at once when the event is set; otherwise it goes on to
\* create the waiter future.
wait_for_shutdown ==
    /\ pc = "wait"
    /\ pc' = IF shutdown_event THEN "stop_services" ELSE "append"
    /\ call' = [ op |-> "wait_for_shutdown", a |-> 0, b |-> None ]
    /\ ret' = None
    /\ UNCHANGED << shutdown_event, loop, received, returned >>
    /\ UNCHANGED stateVars
    /\ UNCHANGED runFrame

\* await shutdown_event.wait(), next: the waiter future is appended to the
\* event's waiters, whatever the flag has become since the test.
append_waiter ==
    /\ pc = "append"
    /\ pc' = "await"
    /\ loop' = [ loop EXCEPT !.waiter = "pending" ]
    /\ call' = [ op |-> "append_waiter", a |-> 0, b |-> None ]
    /\ ret' = None
    /\ UNCHANGED << shutdown_event, received, returned >>
    /\ UNCHANGED stateVars
    /\ UNCHANGED runFrame

\* await shutdown_event.wait(), last: `await fut`. A waiter that was
\* completed since it was appended is not waited for: the task goes on
\* without yielding, cancelled or not. Otherwise the task is suspended on
\* the waiter, and a task that asyncio's SIGINT handler has cancelled
\* cancels the waiter as it suspends, which puts its own wake-up in the
\* ready queue.
suspend ==
    /\ pc = "await"
    /\ IF loop.waiter = "done"
       THEN /\ pc' = "stop_services"
            /\ loop' = [ loop EXCEPT !.waiter = "none" ]
       ELSE /\ pc' = "waiting"
            /\ loop' = [ loop EXCEPT !.ready = loop.must_cancel,
                                     !.waiter = IF loop.must_cancel THEN "done"
                                                ELSE "pending" ]
    /\ call' = [ op |-> "suspend", a |-> 0, b |-> None ]
    /\ ret' = None
    /\ UNCHANGED << shutdown_event, received, returned >>
    /\ UNCHANGED stateVars
    /\ UNCHANGED runFrame

\* One iteration of the event loop while the task is suspended: it resumes
\* the task when the waiter's callback is in the ready queue, and otherwise
\* blocks in select() without a timeout, there being no timer and no other
\* task. A cancelled task resumes with CancelledError, which `except
\* Exception` lets pass.
run_once ==
    /\ pc = "waiting"
    /\ ~loop.blocked
    /\ IF loop.ready
       THEN /\ pc' = IF loop.must_cancel THEN "cancelled" ELSE "stop_services"
            /\ loop' = [ loop EXCEPT !.ready = FALSE, !.waiter = "none" ]
       ELSE /\ pc' = pc
            /\ loop' = [ loop EXCEPT !.blocked = TRUE ]
    /\ call' = [ op |-> "run_once", a |-> 0, b |-> None ]
    /\ ret' = None
    /\ UNCHANGED << shutdown_event, received, returned >>
    /\ UNCHANGED stateVars
    /\ UNCHANGED runFrame

\* signal_handler(sig, frame): shutdown_event.set(). The handlers stay
\* registered when run_application has returned. Event.set() sets the flag
\* and, when it was not set, completes the waiter futures that are pending.
\* When the task is suspended on the waiter, its wake-up goes to the ready
\* queue through loop.call_soon. call_soon does not wake a selector loop
\* that is blocked in select(): the handler installed with signal.signal
\* runs and select() is entered again. What uvloop's loop does then is
\* outside the repository: it may wake or stay blocked.
signal_handler(sig) ==
    /\ pc # "not_started"
    /\ Len(received) < MaxSignals
    /\ received' = Append(received, sig)
    /\ shutdown_event' = TRUE
    /\ \E wakes \in (IF loop.kind = "uvloop" THEN BOOLEAN ELSE {FALSE}) :
         loop' = IF shutdown_event \/ loop.waiter # "pending" THEN loop
                 ELSE IF pc = "waiting"
                 THEN [ loop EXCEPT !.waiter = "done", !.ready = TRUE,
                                    !.blocked = IF wakes THEN FALSE
                                                ELSE loop.blocked ]
                 ELSE [ loop EXCEPT !.waiter = "done" ]
    /\ call' = [ op |-> "signal_handler", a |-> 0, b |-> Some(sig) ]
    /\ ret' = None
    /\ UNCHANGED << pc, returned >>
    /\ UNCHANGED stateVars
    /\ UNCHANGED runFrame

\* "Shutdown signal received, stopping services...", then return 0.
stop_services ==
    /\ pc = "stop_services"
    /\ pc' = "returned"
    /\ returned' = Some(0)
    /\ call' = [ op |-> "stop_services", a |-> 0, b |-> None ]
    /\ ret' = None
    /\ UNCHANGED << shutdown_event, loop, received >>
    /\ UNCHANGED stateVars
    /\ UNCHANGED runFrame

\* `except Exception` of run_application: a statement of the try raised;
\* the error is logged and 1 returned.
run_application_error ==
    /\ pc \in {"initialize", "start_services", "wait", "stop_services"}
    /\ pc' = "returned"
    /\ returned' = Some(1)
    /\ call' = [ op |-> "run_application_error", a |-> 0, b |-> None ]
    /\ ret' = None
    /\ UNCHANGED << shutdown_event, loop, received >>
    /\ UNCHANGED stateVars
    /\ UNCHANGED runFrame

\* ---------------------------------------------------- calls, one a step
HistorySizes == {-1, 0, 1, 2, 100, 5000, 9999, 10000, 10001, 20000}
Timeouts == {-1, 0, 1, 2, 30, 1800, 3599, 3600, 3601, 7200}
Optionals(S) == {None} \cup { Some(v) : v \in S }

\* StateMachineConfig(qso_history_size=h, qso_timeout_seconds=t), either
\* keyword left out when None.
StateMachineConfig_init(h, t) ==
    /\ ret' = StateMachineConfig([ qso_history_size |-> h, qso_timeout_seconds |-> t ])
    /\ call' = [ op |-> "StateMachineConfig", a |-> h, b |-> t ]
    /\ UNCHANGED << now, heap, error_calls >>
    /\ UNCHANGED stateVars
    /\ UNCHANGED world
    /\ UNCHANGED process
    /\ UNCHANGED modeVars

\* The levels passed as keyword: the five names in lower, upper and mixed
\* case, and strings that are no level.
Levels ==
    { "debug", "Debug", "DEBUG", "info", "Info", "INFO", "warning", "Warning",
      "WARNING", "error", "eRRoR", "ERROR", "critical", "Critical", "CRITICAL",
      "invalid", "Invalid", "INVALID", "trace", " info", "" }

\* LoggingConfig(level=..., file=...), a keyword left out when None.
LoggingConfig_init(level, file) ==
    /\ ret' = LoggingConfig([ level |-> level, file |-> file ])
    /\ call' = [ op |-> "LoggingConfig", a |-> level, b |-> file ]
    /\ UNCHANGED << now, heap, error_calls >>
    /\ UNCHANGED stateVars
    /\ UNCHANGED world
    /\ UNCHANGED process
    /\ UNCHANGED modeVars

\* The log files a LoggingConfig names: none, the empty path, the default.
LogFiles == {None, Some(<< >>), Some(DefaultLogFile)}

\* setup_logging(LoggingConfig(level=..., file=..., rotation=...)); opens
\* tells whether the log file can be opened in a writable directory,
\* interrupt the statement after which a KeyboardInterrupt ends the call.
setup_logging_call(level, file, enabled, opens, interrupt) ==
    /\ handlers_created + 2 <= MaxHandlers
    /\ \E config \in { [ level |-> level, file |-> file,
                          rotation |-> [ enabled |-> enabled ] ] } :
         /\ \E r \in { setup_logging(config, opens, dirs, interrupt) } :
               /\ ret' = [ exc |-> r.exc, val |-> None ]
               /\ root_logger' = r.root_logger
               /\ handlers_created' = r.handlers_created
               /\ dirs' = r.dirs
         /\ call' = [ op |-> "setup_logging", a |-> config, b |-> Some(interrupt) ]
    /\ UNCHANGED << now, heap, error_calls, files, environ >>
    /\ UNCHANGED stateVars
    /\ UNCHANGED << pc, shutdown_event, loop, received, returned, main_args >>
    /\ UNCHANGED modeVars

from_yaml_call(yaml_path) ==
    /\ ret' = Config_from_yaml(yaml_path)
    /\ call' = [ op |-> "from_yaml", a |-> yaml_path, b |-> None ]
    /\ UNCHANGED << now, heap, error_calls >>
    /\ UNCHANGED stateVars
    /\ UNCHANGED world
    /\ UNCHANGED process
    /\ UNCHANGED modeVars

get_default_config_path_call ==
    /\ ret' = Config_get_default_config_path
    /\ call' = [ op |-> "get_default_config_path", a |-> 0, b |-> None ]
    /\ UNCHANGED << now, heap, error_calls >>
    /\ UNCHANGED stateVars
    /\ UNCHANGED world
    /\ UNCHANGED process
    /\ UNCHANGED modeVars

\* config.validate_runtime() on the Config a file gave, or on Config() when
\* source is None.
validate_runtime_call(source) ==
    \E config \in { IF source = None THEN Config_default
                     ELSE Config_from_yaml(source[1]) } :
        /\ config.exc = ""
        /\ \E r \in { Config_validate_runtime(config.val[1]) } :
              /\ ret' = [ exc |-> r.exc, val |-> None ]
              /\ dirs' = r.dirs
        /\ call' = [ op |-> "validate_runtime", a |-> config.val[1], b |-> None ]
        /\ UNCHANGED << now, heap, error_calls, files, environ >>
        /\ UNCHANGED stateVars
        /\ UNCHANGED process
        /\ UNCHANGED modeVars

load_config_call(config_path) ==
    \E r \in { load_config(config_path) } :
        /\ ret' = [ exc |-> r.exc, val |-> r.val ]
        /\ dirs' = r.dirs
        /\ call' = [ op |-> "load_config", a |-> config_path, b |-> None ]
        /\ UNCHANGED << now, heap, error_calls, files, environ >>
        /\ UNCHANGED stateVars
        /\ UNCHANGED process
        /\ UNCHANGED modeVars

\* main() is the entry point: it runs once, first, in a process. The step
\* goes to main()'s return or, when asyncio.run starts run_application, to
\* the point where run_application has registered its signal handlers; the
\* steps of run_application follow and main_return ends the call. A SIGINT
\* in run_application before signal.signal is taken by asyncio's handler,
\* which cancels the task (must_cancel); the task goes on to register the
\* application's handlers.
main_call(argv, interrupt, opens, uvloop, outcome, again) ==
    /\ call.op = "start"
    /\ \E r \in { main(argv, interrupt, opens, uvloop, outcome, again) } :
         \E in \in { [ interrupt |-> interrupt, opens |-> opens,
                       uvloop |-> uvloop, outcome |-> outcome,
                       again |-> again ] } :
           /\ ret' = [ exc |-> r.exc, val |-> r.val,
                       logging_set_up |-> r.logging_set_up, app_run |-> r.app_run ]
           /\ dirs' = r.dirs
           /\ root_logger' = r.root_logger
           /\ handlers_created' = r.handlers_created
           /\ IF r.running
              THEN /\ pc' = "initialize"
                   /\ shutdown_event' = FALSE
                   /\ loop' = [ kind |-> r.loop_kind,
                                blocked |-> FALSE, ready |-> FALSE,
                                must_cancel |-> r.must_cancel,
                                waiter |-> "none" ]
                   /\ main_args' = Some([ argv |-> argv, in |-> in ])
                   /\ call' = [ op |-> "run_application", a |-> argv, b |-> in ]
              ELSE /\ UNCHANGED << pc, shutdown_event, loop, main_args >>
                   /\ call' = [ op |-> "main", a |-> argv, b |-> in ]
    /\ UNCHANGED << now, heap, error_calls, files, environ, received, returned >>
    /\ UNCHANGED stateVars
    /\ UNCHANGED modeVars

\* exit_code = asyncio.run(run_application(config)); return exit_code. When
\* the task was cancelled by asyncio's SIGINT handler, asyncio.run raises
\* KeyboardInterrupt whatever the task did after, and main() returns 0.
main_return ==
    /\ pc \in {"returned", "cancelled"}
    /\ main_args # None
    /\ ret' = [ exc |-> "",
                val |-> IF loop.must_cancel THEN Some(0) ELSE returned,
                logging_set_up |-> TRUE, app_run |-> TRUE ]
    /\ call' = [ op |-> "main", a |-> main_args[1].argv, b |-> main_args[1].in ]
    /\ main_args' = None
    /\ UNCHANGED << now, heap, error_calls >>
    /\ UNCHANGED stateVars
    /\ UNCHANGED world
    /\ UNCHANGED << root_logger, handlers_created, pc, shutdown_event, loop,
                    received, returned >>
    /\ UNCHANGED modeVars

\* The directories a configuration of the model can name.
Dirs == {LogDir, AppLogDir, DataDir}

\* ---------------------------------------------------------------- system
\* SystemState(): every field at its default; last_update is datetime.now().
Init ==
    /\ now = 0
    /\ heap = << >>
    /\ active_qsos = << >>
    /\ last_update = now
    /\ error_count = 0
    /\ last_error = None
    /\ last_error_time = None
    /\ call = [ op |-> "SystemState", a |-> 0, b |-> None ]
    /\ ret = None
    /\ error_calls = << >>
    /\ files = [ p \in ConfigPaths |-> None ]
    /\ dirs = [ d \in Dirs |-> "ok" ]
    /\ environ = [ MMDVM_CONFIG |-> None, LEVEL |-> None ]
    /\ InitProcess
    /\ current_mode = "IDLE"
    /\ modem_state = "UNKNOWN"

\* The SystemState operations on QSOs constructed with the default status.
NextState ==
    \/ \E id \in NewIds : QSO_init(id, None)
    \/ \E o \in Refs : add_active_qso(o)
    \/ \E id \in Ids : remove_active_qso(id)
    \/ \E id \in Ids : get_active_qso_by_id(id)
    \/ \E m \in Msgs : record_error(m)
    \/ Tick

SpecState == Init /\ [][NextState]_vars

\* Every operation of models.py, the QSO constructor with any status.
Next ==
    \/ \E id \in NewIds : QSO_init(id, None)
    \/ \E id \in NewIds, status \in QSOStatus : QSO_init(id, Some(status))
    \/ \E o \in Refs, t \in Times : complete(o, Some(t))
    \/ \E o \in Refs : complete(o, None)
    \/ \E o \in Refs : add_active_qso(o)
    \/ \E id \in Ids : remove_active_qso(id)
    \/ \E id \in Ids : get_active_qso_by_id(id)
    \/ \E m \in Msgs : record_error(m)
    \/ \E o \in Refs : QSO_is_active(o)
    \/ Tick

Spec == Init /\ [][Next]_vars

\* The QSO object alone: construction with any status, complete, is_active.
NextQSO ==
    \/ \E id \in NewIds : QSO_init(id, None)
    \/ \E id \in NewIds, status \in QSOStatus : QSO_init(id, Some(status))
    \/ \E o \in Refs, t \in Times : complete(o, Some(t))
    \/ \E o \in Refs : complete(o, None)
    \/ \E o \in Refs : QSO_is_active(o)
    \/ Tick

SpecQSO == Init /\ [][NextQSO]_vars

\* StateMachineConfig constructed with every pair of keyword values.
NextStateMachineConfig ==
    \E h \in Optionals(HistorySizes), t \in Optionals(Timeouts) :
        StateMachineConfig_init(h, t)

SpecStateMachineConfig == Init /\ [][NextStateMachineConfig]_vars

\* SystemState(current_mode=..., modem_state=...): the other fields at their
\* defaults.
InitSystemState ==
    /\ now = 0
    /\ heap = << >>
    /\ active_qsos = << >>
    /\ last_update = now
    /\ error_count = 0
    /\ last_error = None
    /\ last_error_time = None
    /\ call = [ op |-> "SystemState", a |-> 0, b |-> None ]
    /\ ret = None
    /\ error_calls = << >>
    /\ files = [ p \in ConfigPaths |-> None ]
    /\ dirs = [ d \in Dirs |-> "ok" ]
    /\ environ = [ MMDVM_CONFIG |-> None, LEVEL |-> None ]
    /\ InitProcess
    /\ \/ current_mode = "IDLE" /\ modem_state = "UNKNOWN"
       \/ current_mode = "DMR" /\ modem_state = "RX"

\* The methods of SystemState on QSOs constructed with the default status.
NextSystemState ==
    \/ \E id \in NewIds : QSO_init(id, None)
    \/ \E o \in Refs : add_active_qso(o)
    \/ \E id \in Ids : remove_active_qso(id)
    \/ \E id \in Ids : get_active_qso_by_id(id)
    \/ \E m \in Msgs : record_error(m)

SpecSystemState == InitSystemState /\ [][NextSystemState]_vars

\* run_application under either event loop, with signals delivered at any
\* point after the handlers are registered.
TaskSteps ==
    \/ initialize
    \/ start_services
    \/ wait_for_shutdown
    \/ append_waiter
    \/ suspend
    \/ run_once
    \/ stop_services
    \/ run_application_error

RunSteps ==
    \/ \E kind \in EventLoops : setup_signal_handlers(kind)
    \/ TaskSteps

NextRun ==
    \/ RunSteps
    \/ \E sig \in Signals : signal_handler(sig)

SpecRun == Init /\ [][NextRun]_vars

\* The event loop runs the task and itself whenever they can run; nothing
\* obliges the environment to send a signal.
SpecRunFair == SpecRun /\ WF_vars(RunSteps)

\* The process starts with some of the configuration files on disk, the
\* directories in some state and the environment variables set or not.
InitConfig ==
    /\ now = 0
    /\ heap = << >>
    /\ active_qsos = << >>
    /\ last_update = now
    /\ error_count = 0
    /\ last_error = None
    /\ last_error_time = None
    /\ call = [ op |-> "start", a |-> 0, b |-> None ]
    /\ ret = None
    /\ error_calls = << >>
    /\ files \in { f \in [ ConfigPaths -> Optionals(Documents \cup
                        { LocationDocument(p) : p \in ConfigPaths \ {CustomPath} }) ] :
                      /\ f[CustomPath] \in Optionals(Documents)
                      /\ \A p \in ConfigPaths \ {CustomPath} :
                            f[p] \in {None, Some(LocationDocument(p))} }
    /\ dirs \in { d \in [ Dirs -> DirStates ] :
                     /\ d[LogDir] \in {"missing", "unreadable", "ok"}
                     /\ d[AppLogDir] \in {"missing", "blocked", "readonly",
                                         "readonly_log", "ok"}
                     /\ d[DataDir] = "ok" }
    /\ environ \in [ MMDVM_CONFIG : Optionals({EnvPath}),
                      LEVEL : Optionals({"error"}) ]
    /\ InitProcess
    /\ current_mode = "IDLE"
    /\ modem_state = "UNKNOWN"

NextConfig ==
    \/ \E p \in ConfigPaths : from_yaml_call(p)
    \/ get_default_config_path_call
    \/ \E p \in Optionals({CustomPath}) : load_config_call(p)
    \/ \E source \in Optionals(ConfigPaths) : validate_runtime_call(source)

SpecConfig == InitConfig /\ [][NextConfig]_vars

\* LoggingConfig constructed with every level, the variable LEVEL set or not.
InitLoggingConfig ==
    /\ InitConfig
    /\ files = [ p \in ConfigPaths |-> None ]
    /\ dirs = [ d \in Dirs |-> "ok" ]
    /\ environ.MMDVM_CONFIG = None

NextLoggingConfig ==
    \E level \in Optionals(Levels),
       file \in Optionals({None, Some(DefaultLogFile)}) :
        LoggingConfig_init(level, file)

SpecLoggingConfig == InitLoggingConfig /\ [][NextLoggingConfig]_vars

\* setup_logging called again and again, to its end or to a
\* KeyboardInterrupt, the directory of the log file present or not.
InitLogging ==
    /\ InitConfig
    /\ files = [ p \in ConfigPaths |-> None ]
    /\ dirs[LogDir] = "ok"
    /\ environ = [ MMDVM_CONFIG |-> None, LEVEL |-> None ]

NextLogging ==
    \E level \in {"DEBUG", "ERROR"}, file \in LogFiles,
       enabled \in BOOLEAN, opens \in BOOLEAN,
       interrupt \in SetupInterrupts \cup {"never"} :
        setup_logging_call(level, file, enabled, opens, interrupt)

SpecLogging == InitLogging /\ [][NextLogging]_vars

\* main() started in each environment that decides what it does: the file
\* --config names absent, empty, malformed or invalid, one default location
\* present or none, the two log directories present or not.
InitMain ==
    /\ InitConfig
    /\ files[CustomPath] \in
          Optionals({EmptyDocument, MalformedDocument, InvalidDocument})
    /\ files[EnvPath] = None
    /\ files[search_paths[1]] = None
    /\ files[search_paths[2]] = None
    /\ dirs[LogDir] \in {"missing", "ok"}
    /\ dirs[AppLogDir] \in {"missing", "blocked", "ok"}
    /\ environ = [ MMDVM_CONFIG |-> None, LEVEL |-> None ]

NextMain ==
    \/ \E argv \in Argvs, interrupt \in Interrupts, opens \in BOOLEAN,
          uvloop \in Uvloops, outcome \in Outcomes, again \in BOOLEAN :
           main_call(argv, interrupt, opens, uvloop, outcome, again)
    \/ TaskSteps
    \/ \E sig \in Signals : signal_handler(sig)
    \/ main_return

SpecMain == InitMain /\ [][NextMain]_vars

\* QSOs tracked while time goes by.
NextIdle ==
    \/ \E id \in NewIds : QSO_init(id, None)
    \/ \E o \in Refs : add_active_qso(o)
    \/ \E id \in Ids : remove_active_qso(id)
    \/ Tick
    \/ Idle

SpecIdle == Init /\ [][NextIdle]_vars

\* ---------------------------------------------------------------- claims
Terminal == {"COMPLETED", "TIMEOUT", "ERROR"}
InActive(o) == \E i \in DOMAIN active_qsos : active_qsos[i] = o
InHistory(o) == \E i \in DOMAIN History : History[i] = o

\* C1: for every QSO, duration_seconds is set if and only if its status is
\* COMPLETED, TIMEOUT or ERROR, and a QSO newly created with the default
\* status is STARTING with end_time and duration_seconds unset.
C1_DurationIffTerminal ==
    /\ \A o \in Refs :
          (heap[o].duration_seconds # None) <=> (heap[o].status \in Terminal)
    /\ (call.op = "QSO" /\ call.b = None) =>
          /\ heap[call.a].status = "STARTING"
          /\ heap[call.a].end_time = None
          /\ heap[call.a].duration_seconds = None

\* C2: after QSO.complete(end_time), for every end_time (also one earlier than
\* start_time), status is COMPLETED, end_time is the given time (the current
\* time when omitted) and duration_seconds = end_time - start_time >= 0.
C2_CompleteDuration ==
    call.op = "complete" =>
        LET q == heap[call.a]
            e == IF call.b = None THEN now ELSE call.b[1]
        IN  /\ q.status = "COMPLETED"
            /\ q.end_time = Some(e)
            /\ q.duration_seconds = Some(e - q.start_time)
            /\ q.duration_seconds[1] >= 0

\* C3: COMPLETED, TIMEOUT and ERROR are terminal: a complete() call on a QSO
\* that has one of these statuses leaves its status, end_time and
\* duration_seconds as they were.
C3_TerminalNoOp ==
    [][ \A o \in Refs :
          (heap[o].status \in Terminal /\ call'.op = "complete" /\ call'.a = o)
          => heap'[o] = heap[o] ]_vars

\* C4: active_qsos never contains two entries with the same identifier.
C4_UniqueActiveIds ==
    \A i, j \in DOMAIN active_qsos :
        i # j => heap[active_qsos[i]].id # heap[active_qsos[j]].id

\* C5: every QSO in active_qsos has status STARTING, ACTIVE or ENDING; a QSO
\* whose status has become COMPLETED, TIMEOUT or ERROR is not in the list.
C5_ActiveNotTerminal ==
    \A i \in DOMAIN active_qsos :
        heap[active_qsos[i]].status \in {"STARTING", "ACTIVE", "ENDING"}

\* C6: completing a QSO of the active set moves it into the history in the
\* same step (afterwards it is in the history and not in the active set), and
\* no QSO is ever in both.
C6_CompleteMovesToHistory ==
    [][ /\ \A o \in Refs :
             (InActive(o) /\ call'.op = "complete" /\ call'.a = o)
             => (InHistory(o)' /\ ~InActive(o)')
        /\ \A o \in Refs : ~(InActive(o)' /\ InHistory(o)') ]_vars

\* C7: the history never holds more than qso_history_size entries, and
\* get_history is most-recent-first: the QSO finalized last is its first entry
\* (capacity 2, completions A, B, C give [C, B]).
C7_HistoryBoundedFifo ==
    [][ /\ Len(History') <= qso_history_size
        /\ \A o \in Refs :
             (call'.op = "complete" /\ call'.a = o)
             => (Len(History') >= 1 /\ History'[1] = o) ]_vars

\* C8: after n record_error calls on a fresh SystemState error_count = n,
\* last_error is the message of the last call and last_error_time is set
\* (each call adds exactly 1); record_error accepts every message.
C8_RecordErrorCounts ==
    /\ error_count = Len(error_calls)
    /\ last_error = IF error_calls = << >> THEN None
                    ELSE Some(error_calls[Len(error_calls)])
    /\ (last_error_time # None) <=> (error_calls # << >>)
    /\ last_error_time # None => last_error_time[1] <= now
    /\ call.op = "record_error" => last_error = call.b
    /\ error_count < MaxErrors => \A m \in Msgs : ENABLED record_error(m)

C8_Witness ==
    /\ call.op = "record_error"
    /\ error_count = 2
    /\ last_error = Some("Second error")
    /\ error_calls = << "Test error message", "Second error" >>

\* C9: across add_active_qso, remove_active_qso, get_active_qso_by_id and
\* record_error, with a clock that does not go backwards, last_update never
\* decreases.
C9_LastUpdateMonotone ==
    [][ now' >= now => last_update' >= last_update ]_vars

C9_Witness ==
    /\ call.op = "add_active_qso"
    /\ error_count > 0
    /\ last_update = MaxTime
    /\ heap[call.a].start_time < last_update

\* The smallest index of active_qsos whose QSO has the id, 0 when none has.
FirstWithId(qso_id) ==
    LET M == { k \in DOMAIN active_qsos : heap[active_qsos[k]].id = qso_id }
    IN  IF M = {} THEN 0 ELSE CHOOSE k \in M : \A j \in M : k <= j

\* C10: remove_active_qso(id) returns the first active QSO with that id and
\* removes that entry, every other entry keeping its relative order; when no
\* QSO has the id it returns None and active_qsos is unchanged.
C10_RemoveActiveQso ==
    [][ call'.op = "remove_active_qso" =>
          LET k == FirstWithId(call'.a)
          IN  IF k # 0
              THEN /\ ret' = Some(active_qsos[k])
                   /\ Len(active_qsos') = Len(active_qsos) - 1
                   /\ \A j \in 1..(k - 1) : active_qsos'[j] = active_qsos[j]
                   /\ \A j \in k..Len(active_qsos') :
                         active_qsos'[j] = active_qsos[j + 1]
              ELSE /\ ret' = None
                   /\ active_qsos' = active_qsos ]_vars

\* A removal from a list of three that left two entries, the second of them
\* another QSO with the removed id: only the first match went.
C10_Witness ==
    /\ call.op = "remove_active_qso"
    /\ ret # None
    /\ Len(active_qsos) = 2
    /\ heap[active_qsos[1]].id # call.a
    /\ heap[active_qsos[2]].id = call.a

\* C11: get_active_qso_by_id(id) returns the active QSO whose id equals the
\* argument (the first such entry) when one exists and None otherwise, and it
\* changes nothing: active_qsos, last_update, the error fields and the QSO
\* objects are as before.
C11_GetActiveQsoById ==
    [][ call'.op = "get_active_qso_by_id" =>
          LET k == FirstWithId(call'.a)
          IN  /\ ret' = IF k # 0 THEN Some(active_qsos[k]) ELSE None
              /\ ret' # None => /\ InActive(ret'[1])
                                /\ heap[ret'[1]].id = call'.a
              /\ active_qsos' = active_qsos
              /\ last_update' = last_update
              /\ error_count' = error_count
              /\ last_error' = last_error
              /\ last_error_time' = last_error_time
              /\ heap' = heap ]_vars

\* A lookup that found a QSO while last_update was older than the clock and
\* an error had been recorded: a stamp or a reset would show.
C11_Witness ==
    /\ call.op = "get_active_qso_by_id"
    /\ ret # None
    /\ heap[ret[1]].id = call.a
    /\ last_update < now
    /\ error_count > 0

\* C12: QSO.is_active() returns True exactly when the status is STARTING or
\* ACTIVE, and False for ENDING, COMPLETED, TIMEOUT and ERROR; the call never
\* changes the QSO.
C12_IsActive ==
    [][ call'.op = "is_active" =>
          LET st == heap[call'.a].status
          IN  /\ st \in {"STARTING", "ACTIVE"} => ret' = Some(TRUE)
              /\ st \in {"ENDING", "COMPLETED", "TIMEOUT", "ERROR"}
                    => ret' = Some(FALSE)
              /\ heap' = heap ]_vars

\* is_active() was asked of a QSO in ENDING and said False.
C12_Witness ==
    /\ call.op = "is_active"
    /\ heap[call.a].status = "ENDING"
    /\ ret = Some(FALSE)

\* The mode+slot key of a QSO.
Key(q) == << q.mode, q.slot >>

\* C13: when tracking of a new QSO starts for a mode+slot key that already
\* has a STARTING/ACTIVE QSO, the prior QSO is finalized as ERROR, error_count
\* goes up by exactly 1, and at no point are two non-terminal QSOs tracked
\* for the same key.
C13_HeaderFinalizesPrior ==
    [][ /\ \A p \in Refs :
             ( /\ call'.op = "add_active_qso"
               /\ p # call'.a
               /\ InActive(p)
               /\ is_active(heap[p])
               /\ Key(heap[p]) = Key(heap[call'.a]) )
             => /\ heap'[p].status = "ERROR"
                /\ error_count' = error_count + 1
        /\ \A i, j \in DOMAIN active_qsos' :
             ( /\ active_qsos'[i] # active_qsos'[j]
               /\ heap'[active_qsos'[i]].status \notin Terminal
               /\ heap'[active_qsos'[j]].status \notin Terminal )
             => Key(heap'[active_qsos'[i]]) # Key(heap'[active_qsos'[j]]) ]_vars

\* C14: ending a QSO takes it to COMPLETED in one step with the duration from
\* its start to the end timestamp, and emits qso-ending then qso-completed.
C14_EndEmitsEvents ==
    call.op = "complete" =>
        /\ heap[call.a].status = "COMPLETED"
        /\ call.b # None =>
              heap[call.a].duration_seconds
                  = Some(call.b[1] - heap[call.a].start_time)
        /\ Emitted = << "qso-ending", "qso-completed" >>

\* C15: a QSO that was in the active set throughout a period of
\* qso_timeout_seconds plus one supervisor interval with no activity has
\* status TIMEOUT, a duration through the detection time, and is no longer
\* in the active set.
C15_TimeoutSweep ==
    [][ call'.op = "idle" =>
          \A o \in Refs :
              InActive(o) =>
                  /\ heap'[o].status = "TIMEOUT"
                  /\ heap'[o].duration_seconds # None
                  /\ ~InActive(o)' ]_vars

\* What a reader of SystemState.active_qsos sees: the QSO values, in order.
ActiveView == [ i \in DOMAIN active_qsos |-> heap[active_qsos[i]] ]

\* C16: what get_active_qso_by_id hands a reader is a point-in-time copy: a
\* change the reader makes to the QSO it holds does not change the QSOs of
\* the store's active set.
C16_ReaderHoldsCopy ==
    [][ ( /\ call.op = "get_active_qso_by_id"
          /\ ret # None
          /\ call'.op = "complete"
          /\ call'.a = ret[1] )
        => ActiveView' = ActiveView ]_vars

\* C17: a StateMachineConfig is constructed if and only if qso_history_size
\* is in 1..10000 and qso_timeout_seconds is in 1..3600 (a keyword left out
\* takes its default, 100 and 30); a value outside these ranges is rejected
\* with ValueError and no config object results.
C17_StateMachineConfigRange ==
    call.op = "StateMachineConfig" =>
        LET h == IF call.a = None THEN 100 ELSE call.a[1]
            t == IF call.b = None THEN 30 ELSE call.b[1]
            inRange == h \in 1..10000 /\ t \in 1..3600
        IN  /\ (ret.exc = "") <=> inRange
            /\ inRange => ret.val = Some([ qso_history_size |-> h,
                                           qso_timeout_seconds |-> t ])
            /\ ~inRange => (ret.exc = "ValueError" /\ ret.val = None)

\* Both upper limits, 10000 and 3600, were accepted.
C17_Witness ==
    /\ call.op = "StateMachineConfig"
    /\ call.a = Some(10000)
    /\ call.b = Some(3600)
    /\ ret.exc = ""

\* What from_yaml must have returned for the document doc, the level a
\* document does not give being fallback.
SectionsFollowFile(doc, config, fallback) ==
    /\ config.log_monitoring.log_directory =
          IF doc.log_monitoring = None \/ doc.log_monitoring[1].log_directory = None
          THEN LogDir
          ELSE doc.log_monitoring[1].log_directory[1]
    /\ config.state_machine.qso_history_size =
          IF doc.state_machine = None \/ doc.state_machine[1].qso_history_size = None
          THEN 100
          ELSE doc.state_machine[1].qso_history_size[1]
    /\ config.state_machine.qso_timeout_seconds =
          IF doc.state_machine = None \/ doc.state_machine[1].qso_timeout_seconds = None
          THEN 30
          ELSE doc.state_machine[1].qso_timeout_seconds[1]
    /\ config.logging.level =
          IF doc.logging = None \/ doc.logging[1].level = None
          THEN fallback
          ELSE upper(doc.logging[1].level[1])
    /\ config.logging.file =
          IF doc.logging = None \/ doc.logging[1].file = None
          THEN Some(DefaultLogFile)
          ELSE doc.logging[1].file[1]

\* C18 as stated: Config.from_yaml raises FileNotFoundError when the path
\* does not exist; for an existing file every section absent from the YAML
\* (every section, for an empty file) takes its default values while the
\* sections present take the file's values.
C18_FromYamlDefaults ==
    call.op = "from_yaml" =>
        /\ (files[call.a] = None) <=> (ret.exc = "FileNotFoundError")
        /\ (files[call.a] # None /\ ret.exc = "") =>
              SectionsFollowFile(files[call.a][1], ret.val[1], "INFO")

\* The first default location that exists, None when none does.
FirstDefault ==
    IF environ.MMDVM_CONFIG # None /\ files[environ.MMDVM_CONFIG[1]] # None
    THEN environ.MMDVM_CONFIG
    ELSE IF files["config.yaml"] # None THEN Some("config.yaml")
    ELSE IF files["~/.config/mmdvm-state-machine/config.yaml"] # None
    THEN Some("~/.config/mmdvm-state-machine/config.yaml")
    ELSE IF files["/etc/mmdvm-state-machine/config.yaml"] # None
    THEN Some("/etc/mmdvm-state-machine/config.yaml")
    ELSE None

\* The directories are as validate_runtime requires for config.
RuntimeValid(config) ==
    /\ exists(dirs[config.log_monitoring.log_directory])
    /\ R_OK(dirs[config.log_monitoring.log_directory])
    /\ (config.logging.file # None /\ config.logging.file[1] # << >>) =>
          /\ exists(dirs[parent(config.logging.file[1])])
          /\ W_OK(dirs[parent(config.logging.file[1])])

\* C19: load_config with a path loads exactly that file, a missing file
\* raising FileNotFoundError with no fallback; with no path it uses the first
\* default location found, or the built-in default Config when none exists;
\* a Config it returns has passed validate_runtime.
C19_LoadConfig ==
    call.op = "load_config" =>
        /\ call.a # None =>
              /\ (files[call.a[1]] = None) <=> (ret.exc = "FileNotFoundError")
              /\ ret.exc = "" => ret.val = Config_from_yaml(call.a[1]).val
        /\ call.a = None =>
              /\ ret.exc # "FileNotFoundError"
              /\ (ret.exc = "" /\ FirstDefault # None) =>
                    ret.val = Config_from_yaml(FirstDefault[1]).val
              /\ (ret.exc = "" /\ FirstDefault = None) =>
                    ret.val = Config_default.val
        /\ ret.exc = "" => RuntimeValid(ret.val[1])

\* No path, MMDVM_CONFIG naming a file that is not there and no file at a
\* standard location: the built-in default came back, validated, its
\* application log directory created on the way.
C19_Witness ==
    /\ call.op = "load_config"
    /\ call.a = None
    /\ environ.MMDVM_CONFIG # None
    /\ FirstDefault = None
    /\ ret.exc = ""
    /\ ret.val = Config_default.val
    /\ dirs[AppLogDir] = "ok"

\* How main() ends having come to an except handler that returns code:
\* with that exit code, or with KeyboardInterrupt when a SIGINT arrived in
\* the handler.
EndsFromHandler(code) ==
    IF call'.b.again THEN ret'.exc = "KeyboardInterrupt"
    ELSE ret'.exc = "" /\ ret'.val = Some(code)

\* The cases of main()'s end, for the call that ends in this step. A main()
\* that returns from the application run loaded its configuration before,
\* and would load it again from the directories it left.
MainExitCodes ==
    LET in == call'.b
        parsed == call'.a \in {"", "--config"}
    IN  \E config \in { load_config(IF call'.a = "--config" THEN Some(CustomPath)
                                    ELSE None) } :
        LET loaded == config.exc = ""
            file == IF loaded THEN config.val[1].logging.file ELSE None
            named == file # None /\ file[1] # << >>
            logged == loaded /\ (~named \/ in.opens)
            interrupt ==
                IF \/ in.interrupt \in {"mkdir", "FileHandler", "addFileHandler"}
                      /\ ~named
                   \/ in.interrupt \in {"FileHandler", "addFileHandler"}
                      /\ ~in.opens
                THEN "never" ELSE in.interrupt
            started == parsed /\ in.interrupt \notin {"parse_arguments", "load_config"}
        IN
        /\ in.interrupt = "parse_arguments" =>
              (ret'.exc = "KeyboardInterrupt" /\ ~ret'.logging_set_up /\ ~ret'.app_run)
        /\ (~parsed /\ in.interrupt # "parse_arguments") => ret'.exc = "SystemExit"
        /\ (parsed /\ in.interrupt = "load_config") =>
              (ret'.exc = "KeyboardInterrupt" /\ ~ret'.logging_set_up /\ ~ret'.app_run)
        /\ (started /\ ~loaded) =>
              (EndsFromHandler(1) /\ ~ret'.logging_set_up /\ ~ret'.app_run)
        /\ (started /\ loaded
              /\ interrupt \in {"load_config_return"} \cup SetupInterrupts) =>
              (ret'.exc = "KeyboardInterrupt" /\ ~ret'.logging_set_up /\ ~ret'.app_run)
        /\ (started /\ loaded /\ ~logged
              /\ interrupt \notin {"load_config_return"} \cup SetupInterrupts) =>
              (EndsFromHandler(1) /\ ~ret'.logging_set_up /\ ~ret'.app_run)
        /\ (started /\ logged /\ interrupt = "get_logger") =>
              (ret'.exc = "KeyboardInterrupt" /\ ret'.logging_set_up /\ ~ret'.app_run)
        /\ (started /\ logged /\ interrupt = "uvloop") =>
              (EndsFromHandler(0) /\ ret'.logging_set_up /\ ~ret'.app_run)
        /\ (started /\ logged /\ interrupt = "asyncio.run") =>
              (EndsFromHandler(0) /\ ret'.logging_set_up /\ ret'.app_run)
        /\ (started /\ logged /\ in.outcome = "crash"
              /\ interrupt \in {"never", "Runner.run", "run_application"}) =>
              (EndsFromHandler(1) /\ ret'.logging_set_up /\ ret'.app_run)
        /\ (started /\ logged /\ in.outcome = "runs" /\ interrupt = "Runner.run") =>
              (ret'.exc = "CancelledError" /\ ret'.logging_set_up /\ ret'.app_run)
        /\ (started /\ logged /\ in.outcome = "runs"
              /\ interrupt = "run_application") =>
              (ret'.exc = "" /\ ret'.val = Some(0) /\ ret'.app_run)
        /\ (started /\ logged /\ in.outcome = "runs" /\ interrupt = "never") =>
              /\ ret'.exc = ""
              /\ ret'.val = returned
              /\ ret'.val \in {Some(0), Some(1)}
              /\ ret'.val = Some(0) => (shutdown_event /\ received # << >>)
              /\ ret'.app_run

\* C20 as stated: main() always returns an exit code and never propagates an
\* exception: 1 when the configuration file is not found or the configuration
\* is invalid (logging never set up, the application never run), 0 after a
\* graceful shutdown or a KeyboardInterrupt, 1 for any other exception.
C20_MainAlwaysReturns ==
    [][ call'.op = "main" =>
          \E config \in { load_config(IF call'.a = "--config"
                                      THEN Some(CustomPath) ELSE None) } :
              /\ ret'.exc = ""
              /\ ret'.val \in {Some(0), Some(1)}
              /\ config.exc # "" =>
                    (ret'.val = Some(1) /\ ~ret'.logging_set_up /\ ~ret'.app_run)
              /\ (config.exc = "" /\ call'.b.interrupt # "never"
                    /\ call'.b.outcome = "runs") => ret'.val = Some(0)
              /\ (ret'.val = Some(0) /\ call'.b.interrupt = "never") =>
                    (shutdown_event /\ received # << >>) ]_vars

\* C20 amended: main() ends with an exit code or with an exception that is
\* not an Exception. The exit code is 1 when the configuration file is not
\* found or the configuration is invalid (logging never set up, the
\* application never run) and for any other Exception, 0 for a
\* KeyboardInterrupt inside the inner try, and what run_application returned
\* after it ran (0 only after a shutdown signal). What leaves main() is the
\* SystemExit of argument parsing (--version, an unknown option), a
\* KeyboardInterrupt that arrives before the inner try (the application not
\* run) or while an except handler of main() runs, and the CancelledError of
\* a SIGINT that arrives in asyncio.run before its interrupt count is reset.
C20_MainExitCode ==
    [][ call'.op = "main" =>
          LET parsed == call'.a \in {"", "--config"}
              interrupt == call'.b.interrupt
          IN  /\ ret'.exc \in {"", "SystemExit", "KeyboardInterrupt",
                               "CancelledError"}
              /\ ret'.exc = "" => ret'.val \in {Some(0), Some(1)}
              /\ ret'.exc = "SystemExit" <=>
                    (~parsed /\ interrupt # "parse_arguments")
              /\ ret'.exc = "KeyboardInterrupt" =>
                    \/ /\ interrupt \in
                             {"parse_arguments", "load_config",
                              "load_config_return", "get_logger"}
                                 \cup SetupInterrupts
                       /\ ~ret'.app_run
                    \/ call'.b.again
              /\ ret'.exc = "CancelledError" =>
                    (interrupt = "Runner.run" /\ ret'.app_run)
              /\ MainExitCodes ]_vars

\* A KeyboardInterrupt in asyncio.run: logging was set up, asyncio.run was
\* called, and main() returned 0.
C20_Witness ==
    /\ call.op = "main"
    /\ call.b.interrupt = "asyncio.run"
    /\ ~call.b.again
    /\ ret.exc = ""
    /\ ret.val = Some(0)
    /\ ret.logging_set_up
    /\ ret.app_run

\* C22: get_default_config_path returns the first existing path in the order
\* MMDVM_CONFIG, ./config.yaml, ~/.config/mmdvm-state-machine/config.yaml,
\* /etc/mmdvm-state-machine/config.yaml, and raises FileNotFoundError exactly
\* when none of them exists.
C22_DefaultConfigPath ==
    call.op = "get_default_config_path" =>
        /\ FirstDefault # None => ret = Return(FirstDefault[1])
        /\ FirstDefault = None => ret = Raise("FileNotFoundError")
        /\ (ret.exc = "FileNotFoundError") <=>
              /\ environ.MMDVM_CONFIG = None \/ files[environ.MMDVM_CONFIG[1]] = None
              /\ \A i \in 1..3 : files[search_paths[i]] = None

\* The file MMDVM_CONFIG names and ./config.yaml both exist: the variable's
\* file was returned.
C22_Witness ==
    /\ call.op = "get_default_config_path"
    /\ environ.MMDVM_CONFIG = Some(EnvPath)
    /\ files[EnvPath] # None
    /\ files["config.yaml"] # None
    /\ ret = Return(EnvPath)

\* C23: validate_runtime raises ValueError when the monitored log directory
\* does not exist or is not readable; when an application log file is
\* configured and its parent directory is missing it creates the directory,
\* raising ValueError if it cannot be created or is not writable; otherwise
\* it returns without error.
C23_ValidateRuntime ==
    [][ call'.op = "validate_runtime" =>
          LET config == call'.a
              log_dir == dirs[config.log_monitoring.log_directory]
          IN  IF log_dir \in {"missing", "blocked", "unreadable"}
              THEN ret'.exc = "ValueError" /\ dirs' = dirs
              ELSE IF config.logging.file = None \/ config.logging.file[1] = << >>
              THEN ret'.exc = "" /\ dirs' = dirs
              ELSE LET app_log_dir == parent(config.logging.file[1])
                   IN  CASE dirs[app_log_dir] = "missing" ->
                              /\ ret'.exc = ""
                              /\ dirs' = [ dirs EXCEPT ![app_log_dir] = "ok" ]
                         [] dirs[app_log_dir] = "ok" ->
                              ret'.exc = "" /\ dirs' = dirs
                         [] OTHER ->
                              ret'.exc = "ValueError" /\ dirs' = dirs ]_vars

\* The log directory is fine, the application log directory exists and is
\* not writable: ValueError.
C23_Witness ==
    /\ call.op = "validate_runtime"
    /\ call.a.logging.file = Some(DefaultLogFile)
    /\ dirs[LogDir] = "ok"
    /\ dirs[AppLogDir] = "readonly"
    /\ ret.exc = "ValueError"

\* The spellings of each level name, in lower, upper and mixed case.
Spellings ==
    [ DEBUG |-> {"debug", "Debug", "DEBUG"},
      INFO |-> {"info", "Info", "INFO"},
      WARNING |-> {"warning", "Warning", "WARNING"},
      ERROR |-> {"error", "eRRoR", "ERROR"},
      CRITICAL |-> {"critical", "Critical", "CRITICAL"} ]

\* C24: LoggingConfig accepts a level, in any letter case, exactly when its
\* upper-cased form is DEBUG, INFO, WARNING, ERROR or CRITICAL, stores the
\* upper-cased form, and rejects every other value with ValueError;
\* validating a stored level yields the same level.
C24_LevelNormalised ==
    (call.op = "LoggingConfig" /\ call.a # None) =>
        LET names == { n \in DOMAIN Spellings : call.a[1] \in Spellings[n] }
        IN  /\ (ret.exc = "") <=> (names # {})
            /\ names = {} => (ret.exc = "ValueError" /\ ret.val = None)
            /\ names # {} =>
                  /\ ret.val[1].level \in names
                  /\ validate_level(ret.val[1].level) = Return(ret.val[1].level)

\* A level in mixed case was stored in upper case.
C24_Witness ==
    /\ call.op = "LoggingConfig"
    /\ call.a = Some("Warning")
    /\ ret.exc = ""
    /\ ret.val[1].level = "WARNING"

\* The streams a record is written to, one per attached handler, as
\* Logger.callHandlers goes through them.
Streams(logger) == [ i \in 1..Len(logger.handlers) |-> logger.handlers[i].stream ]

\* C25 as stated: after any setup_logging call among any number of them, the
\* root logger holds exactly the handlers of that call: one console handler,
\* plus one file handler if and only if a log file is configured, a rotating
\* one if and only if rotation is enabled; no handler attached before the
\* call is left.
C25_HandlersAsConfigured ==
    [][ call'.op = "setup_logging" =>
          LET config == call'.a
              attached == root_logger'.handlers
          IN  /\ \A i \in 1..Len(attached) :
                    \A j \in 1..Len(root_logger.handlers) :
                        attached[i] # root_logger.handlers[j]
              /\ Len(attached) = IF file_configured(config) THEN 2 ELSE 1
              /\ attached[1].class = "StreamHandler"
              /\ file_configured(config) =>
                    attached[2].class = IF config.rotation.enabled
                                        THEN "RotatingFileHandler"
                                        ELSE "FileHandler" ]_vars

\* C25 amended: after a setup_logging call that returns, among any number
\* of calls however they ended, the root logger holds exactly the handlers
\* that call constructed: one console handler, plus one file handler exactly
\* when a log file is configured, a rotating one exactly when rotation is
\* enabled, and no two handlers write to the same stream. After a call that
\* raises OSError, which takes a log file configured, it holds the new
\* console handler alone. In both cases no handler attached before the call
\* is left. After a call that a KeyboardInterrupt ends it holds either the
\* handlers attached before the call (the interrupt came before
\* handlers.clear()) or the first none, one or two of the handlers the call
\* would attach.
C25_HandlersOfLastCall ==
    [][ call'.op = "setup_logging" =>
          LET config == call'.a
              attached == root_logger'.handlers
              fresh ==
                  /\ \A i \in 1..Len(attached) :
                        /\ attached[i].id > handlers_created
                        /\ \A j \in 1..Len(root_logger.handlers) :
                              attached[i] # root_logger.handlers[j]
                  /\ Len(attached) <= IF file_configured(config) THEN 2 ELSE 1
                  /\ Len(attached) >= 1 =>
                        /\ attached[1].class = "StreamHandler"
                        /\ attached[1].stream = Stdout
                  /\ Len(attached) = 2 =>
                        /\ attached[2].stream = config.file[1]
                        /\ attached[2].class =
                              IF config.rotation.enabled
                              THEN "RotatingFileHandler" ELSE "FileHandler"
          IN  /\ ret'.exc \in {"", "OSError", "KeyboardInterrupt"}
              /\ \A i, j \in 1..Len(attached) :
                    Streams(root_logger')[i] = Streams(root_logger')[j] => i = j
              /\ ret'.exc = "" =>
                    /\ fresh
                    /\ Len(attached) = IF file_configured(config) THEN 2 ELSE 1
              /\ ret'.exc = "OSError" =>
                    /\ fresh
                    /\ file_configured(config)
                    /\ Len(attached) = 1
              /\ ret'.exc = "KeyboardInterrupt" =>
                    \/ /\ attached = root_logger.handlers
                       /\ call'.b[1] \in {"setup_logging", "setLevel"}
                    \/ fresh ]_vars

\* A second call, with a rotating file, replaced the handlers of the first.
C25_Witness ==
    /\ call.op = "setup_logging"
    /\ ret.exc = ""
    /\ call.a.rotation.enabled
    /\ Len(root_logger.handlers) = 2
    /\ root_logger.handlers[1].id >= 3
    /\ root_logger.handlers[2].class = "RotatingFileHandler"

\* The list without its last entry.
Front(list) == SubSeq(list, 1, Len(list) - 1)

\* C26: add_active_qso always places the QSO last; and when no active QSO
\* had q's id before add_active_qso(q), the remove_active_qso(q.id) that
\* follows returns q and leaves active_qsos, in content and order, as it was
\* before the add.
C26_AddRemoveRoundTrip ==
    [][ /\ call'.op = "add_active_qso" =>
              active_qsos' = Append(active_qsos, call'.a)
        /\ ( /\ call.op = "add_active_qso"
             /\ \A k \in 1..(Len(active_qsos) - 1) :
                   heap[active_qsos[k]].id # heap[call.a].id
             /\ call'.op = "remove_active_qso"
             /\ call'.a = heap[call.a].id )
           => /\ ret' = Some(call.a)
              /\ active_qsos' = Front(active_qsos) ]_vars

\* A QSO was removed that stood behind another one, which stays.
C26_Witness ==
    /\ call.op = "remove_active_qso"
    /\ ret # None
    /\ heap[ret[1]].id = call.a
    /\ Len(active_qsos) = 1
    /\ heap[active_qsos[1]].id < call.a

\* C27: add_active_qso, remove_active_qso and get_active_qso_by_id leave
\* error_count, last_error and last_error_time as they were; record_error
\* leaves active_qsos, current_mode and modem_state as they were; so
\* error_count never decreases and is the number of record_error calls made.
C27_Frames ==
    [][ /\ call'.op \in {"add_active_qso", "remove_active_qso", "get_active_qso_by_id"}
              => UNCHANGED << error_count, last_error, last_error_time >>
        /\ call'.op = "record_error"
              => /\ UNCHANGED << active_qsos, current_mode, modem_state >>
                 /\ error_count' = error_count + 1
        /\ error_count' >= error_count
        /\ error_count' = Len(error_calls') ]_vars

\* A removal that found nothing, after two errors were recorded.
C27_Witness ==
    /\ call.op = "remove_active_qso"
    /\ ret = None
    /\ active_qsos # << >>
    /\ error_count = 2
    /\ last_error # None
    /\ current_mode = "DMR"

\* run_application returns 0 only after a signal was received, a received
\* signal has set the event, and the steps go initialize, start services,
\* wait for shutdown, stop services.
RunOrder ==
    << "not_started", "initialize", "start_services", "wait", "append", "await",
       "waiting",
       "stop_services", "returned" >>
Position(p) == CHOOSE i \in 1..Len(RunOrder) : RunOrder[i] = p
RunSafety ==
    /\ returned = Some(0) => received # << >>
    /\ received # << >> => shutdown_event
    /\ (pc = "stop_services" \/ returned = Some(0)) => shutdown_event
    /\ returned # None <=> pc = "returned"
RunInOrder ==
    [][ pc' # pc =>
          \/ Position(pc') = Position(pc) + 1
          \/ pc \in {"wait", "await"} /\ pc' = "stop_services"
          \/ call'.op = "run_application_error" ]_vars

\* C21, for the default event loop: once SIGINT or SIGTERM is delivered, the
\* shutdown event is set and run_application eventually returns.
C21_SignalLeadsToReturn ==
    (received # << >> /\ loop.kind = "asyncio")
        ~> (shutdown_event /\ returned # None)

====
